---- MODULE Spec2Model ----
(***************************************************************************)
(* Model of BankAPIMockChecker (src/APIMockChecker.py): the request        *)
(* checker mock_execute_request with its URL, endpoint, method and         *)
(* parameter validation, the success-code selection, the depth-bounded     *)
(* mock generator _generate_mock_response and the advisory audit.          *)
(*                                                                         *)
(* Text is modelled as a sequence of tokens (Python str): a URL is         *)
(* <<"https", "://", "host", "/", "v1", ...>>, a response code is the      *)
(* sequence of its characters <<"2", "0", "0">>.  A JSON object whose key  *)
(* order matters (responses, properties) is a sequence of [k, v] pairs; a  *)
(* JSON object used only by key is a record, so that `"k" in d` is         *)
(* "k" \in DOMAIN d.  Python values carry a tag: [tag |-> "int", n |-> 5]. *)
(***************************************************************************)
EXTENDS Integers, Sequences, FiniteSets, TLC

VARIABLES
    doc,        \* self.openapi_spec of the Checker instance
    req,        \* the arguments of mock_execute_request
    pc,         \* position of the call: "start", "gen", "audit", "done"
    code,       \* success_code selected at lines 58-60 (text)
    stack,      \* active _generate_mock_response frames, innermost last
    maxFrames,  \* the largest number of simultaneously active frames so far
    lastRet,    \* the last value a _generate_mock_response frame returned
    mock,       \* mock_response
    audit,      \* what the audit at lines 70-76 logged
    verdict,    \* the Verdict returned by the call
    first,      \* the Verdict of the previous call with the same arguments
    run,        \* 1 for the first call, 2 for the repeated call
    ref_schema, \* the mapping a call of _resolve_ref is given
    resolved_schema \* what that call returned or raised

vars == <<doc, req, pc, code, stack, maxFrames, lastRet, mock, audit, verdict, first, run,
          ref_schema, resolved_schema>>

-----------------------------------------------------------------------------
(* Python values *)

PyNone == [tag |-> "null"]
PyStr(s) == [tag |-> "str", s |-> s]
PyInt(n) == [tag |-> "int", n |-> n]
PyBool(b) == [tag |-> "bool", b |-> b]
\* a float with two decimals, held in hundredths
PyNum(h) == [tag |-> "num", h |-> h]
PyList(items) == [tag |-> "arr", items |-> items]
\* a dict, as the sequence of its [k, v] items in insertion order
PyDict(items) == [tag |-> "obj", items |-> items]

-----------------------------------------------------------------------------
(* Text helpers: str.startswith, str.split, str.join, str.isdigit *)

startswith(s, p) ==
    /\ Len(p) <= Len(s)
    /\ SubSeq(s, 1, Len(p)) = p

\* index of the first occurrence of token t in s, 0 when absent
RECURSIVE IndexFrom(_, _, _)
IndexFrom(s, t, i) ==
    IF i > Len(s) THEN 0
    ELSE IF s[i] = t THEN i
    ELSE IndexFrom(s, t, i + 1)

IndexOf(s, t) == IndexFrom(s, t, 1)

\* s.split(t): the sequence of the parts of s between occurrences of t
RECURSIVE split(_, _)
split(s, t) ==
    LET i == IndexOf(s, t) IN
    IF i = 0 THEN <<s>>
    ELSE <<SubSeq(s, 1, i - 1)>> \o split(SubSeq(s, i + 1, Len(s)), t)

\* t.join(parts)
RECURSIVE join(_, _)
join(parts, t) ==
    IF Len(parts) = 0 THEN <<>>
    ELSE IF Len(parts) = 1 THEN parts[1]
    ELSE parts[1] \o <<t>> \o join(Tail(parts), t)

Digits == <<"0", "1", "2", "3", "4", "5", "6", "7", "8", "9">>

IsDigitChar(c) == \E d \in 1..Len(Digits) : Digits[d] = c

DigitValue(c) == (CHOOSE d \in 1..Len(Digits) : Digits[d] = c) - 1

\* str.isdigit(): non-empty and every character a digit
isdigit(s) == Len(s) > 0 /\ \A i \in 1..Len(s) : IsDigitChar(s[i])

\* the value of a string of digits, read left to right
RECURSIVE DigitsValue(_, _)
DigitsValue(s, acc) ==
    IF Len(s) = 0 THEN acc
    ELSE DigitsValue(Tail(s), acc * 10 + DigitValue(s[1]))

\* str(n) for a natural number n
RECURSIVE StrOfNat(_)
StrOfNat(n) ==
    IF n < 10 THEN <<Digits[n + 1]>>
    ELSE StrOfNat(n \div 10) \o <<Digits[(n % 10) + 1]>>

\* s.replace(c, ''): s without the tokens equal to c
RECURSIVE remove(_, _)
remove(s, c) ==
    IF Len(s) = 0 THEN <<>>
    ELSE IF s[1] = c THEN remove(Tail(s), c)
    ELSE <<s[1]>> \o remove(Tail(s), c)

\* str.lower() on the tokens the model uses
LowerToken(c) ==
    CASE c = "GET" -> "get" [] c = "Get" -> "get"
      [] c = "POST" -> "post" [] c = "Post" -> "post"
      [] c = "TRUE" -> "true" [] c = "True" -> "true"
      [] c = "FALSE" -> "false" [] c = "False" -> "false"
      [] OTHER -> c

lower(s) == [i \in 1..Len(s) |-> LowerToken(s[i])]

\* dict.get(key, default) on a record
GetOr(d, key, default) == IF key \in DOMAIN d THEN d[key] ELSE default

\* {} where a mapping is only read by key
EmptyMapping == <<>>

\* the result of a call: a value, or a raised exception
Ok(v) == [exc |-> "none", val |-> v]
Raise(kind, msg) == [exc |-> kind, msg |-> msg]

-----------------------------------------------------------------------------
(* Ordered dicts: sequences of [k, v] *)

Keys(d) == [i \in 1..Len(d) |-> d[i].k]

Has(d, key) == \E i \in 1..Len(d) : d[i].k = key

Get(d, key) == d[CHOOSE i \in 1..Len(d) : d[i].k = key].v

\* d[key] = value: replace in place when the key exists, else append
Put(d, key, value) ==
    IF Has(d, key)
    THEN [i \in 1..Len(d) |-> IF d[i].k = key THEN [k |-> key, v |-> value] ELSE d[i]]
    ELSE Append(d, [k |-> key, v |-> value])

-----------------------------------------------------------------------------
(* urllib.parse on token text *)

\* urlparse(url): scheme "://" netloc path ["?" query]; a text without
\* "://" has an empty scheme and netloc and is all path
urlparse(url) ==
    LET hasNet == Len(url) >= 2 /\ url[2] = "://"
        hasHost == hasNet /\ Len(url) >= 3 /\ url[3] \notin {"/", "?"}
        rest == IF hasHost THEN SubSeq(url, 4, Len(url))
                ELSE IF hasNet THEN SubSeq(url, 3, Len(url))
                ELSE url
        q == IndexOf(rest, "?")
    IN  [scheme |-> IF hasNet THEN <<url[1]>> ELSE <<>>,
         netloc |-> IF hasHost THEN <<url[3]>> ELSE <<>>,
         path   |-> IF q = 0 THEN rest ELSE SubSeq(rest, 1, q - 1),
         query  |-> IF q = 0 THEN <<>> ELSE SubSeq(rest, q + 1, Len(rest))]

\* one "name=value" field of a query string added to the dict of lists;
\* a field without "=", without a one-token name or with a blank value is dropped
AddField(d, field) ==
    LET e == IndexOf(field, "=") IN
    IF e # 2 \/ Len(field) < 3 THEN d
    ELSE LET name == field[1]
             value == SubSeq(field, 3, Len(field))
         IN  IF Has(d, name) THEN Put(d, name, Append(Get(d, name), value))
             ELSE Put(d, name, <<value>>)

RECURSIVE AddFields(_, _)
AddFields(d, fields) ==
    IF Len(fields) = 0 THEN d
    ELSE AddFields(AddField(d, fields[1]), Tail(fields))

\* parse_qs(query): name -> list of values, in order of first appearance
parse_qs(query) ==
    IF Len(query) = 0 THEN <<>> ELSE AddFields(<<>>, split(query, "&"))

-----------------------------------------------------------------------------
(* The spec documents the checker is loaded with.  "$ref" is the field ref. *)

Ref(name) == [ref |-> <<"#", "/", "components", "/", "schemas", "/", name>>]

StringSchema == [type |-> "string"]
IntegerSchema == [type |-> "integer"]
NumberSchema == [type |-> "number"]
BooleanSchema == [type |-> "boolean"]
CurrencySchema == [type |-> "string", enum |-> <<PyStr(<<"USD">>), PyStr(<<"EUR">>)>>]
StatusSchema == [type |-> "string", enum |-> <<PyStr(<<"open">>), PyStr(<<"closed">>)>>]
DateTimeSchema == [type |-> "string", format |-> "date-time"]
DateSchema == [type |-> "string", format |-> "date"]
UuidSchema == [type |-> "string", format |-> "uuid"]
FileSchema == [type |-> "file"]
EmptySchema == [description |-> "anything"]

AccountSchema ==
    [type |-> "object",
     properties |-> <<[k |-> "balance", v |-> NumberSchema],
                      [k |-> "currency", v |-> CurrencySchema]>>]
CounterSchema ==
    [type |-> "object", properties |-> <<[k |-> "count", v |-> IntegerSchema]>>]
TagsSchema == [type |-> "array", items |-> StatusSchema]
\* a schema that refers to itself through a property
NodeSchema ==
    [type |-> "object",
     properties |-> <<[k |-> "next", v |-> Ref("Node")]>>]
\* a "$ref" that points at itself
LoopSchema == Ref("Loop")
BareObjectSchema == [type |-> "object"]
BareArraySchema == [type |-> "array"]
NoChoiceSchema == [type |-> "string", enum |-> <<>>]
EventSchema ==
    [type |-> "object",
     properties |-> <<[k |-> "at", v |-> DateTimeSchema],
                      [k |-> "day", v |-> DateSchema],
                      [k |-> "ok", v |-> BooleanSchema],
                      [k |-> "note", v |-> StringSchema],
                      [k |-> "id", v |-> UuidSchema],
                      [k |-> "blob", v |-> FileSchema],
                      [k |-> "any", v |-> EmptySchema]>>]

Components ==
    [schemas |-> [Account |-> AccountSchema,
                  Counter |-> CounterSchema,
                  Tags    |-> TagsSchema,
                  Node    |-> NodeSchema,
                  Loop    |-> LoopSchema,
                  Status  |-> StatusSchema,
                  Event   |-> EventSchema],
     parameters |-> [Limit |-> [name |-> "limit", required |-> TRUE,
                                schema |-> IntegerSchema]]]

JsonContent(schema) == [content |-> ("application/json" :> [schema |-> schema])]
TextContent == [content |-> ("text/plain" :> [schema |-> StringSchema])]
NoContent == [description |-> "no body"]

C200 == <<"2", "0", "0">>
C201 == <<"2", "0", "1">>
C204 == <<"2", "0", "4">>
C404 == <<"4", "0", "4">>
C2XX == <<"2", "X", "X">>
CDefault == <<"d", "e", "f", "a", "u", "l", "t">>

IdParam == [name |-> "id", required |-> TRUE, schema |-> StringSchema]
LimitParam == [name |-> "limit", required |-> TRUE, schema |-> IntegerSchema]
LimitRefParam == [ref |-> <<"#", "/", "components", "/", "parameters", "/", "Limit">>]
StatusParam == [name |-> "status", required |-> FALSE, schema |-> Ref("Status")]
AmountParam == [name |-> "amount", required |-> TRUE, schema |-> NumberSchema]
CodeParam == [name |-> "code", required |-> FALSE,
              schema |-> [type |-> "string", pattern |-> <<"^", "[0-9]+", "$">>]]
NamelessParam == [description |-> "no name"]
\* a "$ref" whose walk passes through the text stored under "basePath"
BasePathRefParam == [ref |-> <<"#", "/", "basePath", "/", "x">>]

PathAccount == <<"/", "accounts", "/", "{", "id", "}">>
PathAccounts == <<"/", "accounts">>
PathTransfers == <<"/", "transfers">>
PathReports == <<"/", "reports">>
PathEvents == <<"/", "audit", "_", "events">>
PathNope == <<"/", "nope">>

ServerUrl == <<"https", "://", "api.example.com", "/", "v1">>

DocV3 ==
    [servers |-> <<[url |-> ServerUrl]>>,
     components |-> Components,
     paths |->
        PathAccount :>
            [get |-> [parameters |-> <<IdParam>>,
                      responses |-> <<[k |-> C200, v |-> JsonContent(Ref("Account"))]>>]]
     @@ PathAccounts :>
            [get |-> [parameters |-> <<LimitRefParam, StatusParam, NamelessParam>>,
                      responses |-> <<[k |-> C404, v |-> NoContent],
                                      [k |-> C200, v |-> JsonContent(TagsSchema)]>>],
             post |-> [responses |-> <<[k |-> C201, v |-> NoContent]>>]]
     @@ PathTransfers :>
            [post |-> [parameters |-> <<AmountParam, CodeParam>>,
                       responses |-> <<[k |-> C204, v |-> NoContent]>>],
             get |-> [responses |-> <<[k |-> C200, v |-> TextContent]>>]]
     @@ PathReports :>
            [get |-> [parameters |-> <<>>,
                      responses |-> <<[k |-> C200, v |-> JsonContent(Ref("Counter"))]>>]]
     @@ PathEvents :>
            [get |-> [responses |-> <<[k |-> C200, v |-> JsonContent(Ref("Event"))]>>]]]

DocV2 ==
    [basePath |-> <<"/", "v1">>,
     components |-> Components,
     paths |->
        PathAccount :>
            [get |-> [parameters |-> <<IdParam>>,
                      responses |-> <<[k |-> C2XX, v |-> NoContent]>>],
             post |-> [responses |-> <<[k |-> C2XX, v |-> JsonContent(Ref("Counter"))]>>]]
     @@ PathAccounts :>
            [get |-> [parameters |-> <<LimitParam>>,
                      responses |-> <<[k |-> CDefault, v |-> NoContent]>>]]
     @@ PathTransfers :>
            [post |-> [responses |-> <<[k |-> C200, v |-> JsonContent(Ref("Missing"))]>>],
             get |-> [parameters |-> <<>>]]
     @@ PathReports :>
            [get |-> [responses |-> <<[k |-> C200, v |-> JsonContent(Ref("Node"))]>>],
             post |-> [parameters |-> <<BasePathRefParam>>,
                       responses |-> <<[k |-> C200, v |-> NoContent]>>]]
     @@ PathEvents :>
            [get |-> [responses |-> <<[k |-> C200, v |-> JsonContent(NoChoiceSchema)]>>],
             post |-> [responses |-> <<[k |-> C200, v |-> JsonContent(BareArraySchema)]>>]]]

\* neither "servers" nor "basePath"
DocNoBase ==
    [components |-> Components,
     paths |->
        PathAccounts :>
            [get |-> [parameters |-> <<LimitParam>>,
                      responses |-> <<[k |-> C200, v |-> NoContent]>>]]
     @@ PathReports :>
            [get |-> [responses |-> <<[k |-> C200, v |-> JsonContent(Ref("Counter"))]>>]]]

\* a document without "paths"
DocNoPaths == [servers |-> <<[url |-> ServerUrl]>>, components |-> Components]

Docs == {DocV3, DocV2, DocNoBase, DocNoPaths}

-----------------------------------------------------------------------------
(* Reference resolver, URL check, endpoint matcher *)

\* the key a "$ref" segment names
SegKey(seg) == IF Len(seg) = 1 THEN seg[1] ELSE ""

\* whether the value a document stores under `key` is a mapping: "servers"
\* holds a list, "basePath" and "url" hold a text
holds_mapping(key) == key \notin {"servers", "basePath", "url"}

\* the walk of _resolve_ref from `at` through the segments `segs`:
\* dict.get at every step, the original mapping when a step yields None
\* `at` has_get when it is a mapping; a list or a text has no .get and the
\* call at line 178 raises AttributeError
RECURSIVE resolve_walk(_, _, _, _)
resolve_walk(schema, at, has_get, segs) ==
    IF Len(segs) = 0 THEN Ok(at)
    ELSE IF ~has_get THEN Raise("AttributeError", <<"get">>)
    ELSE IF SegKey(segs[1]) \notin DOMAIN at THEN Ok(schema)
    ELSE resolve_walk(schema, at[SegKey(segs[1])], holds_mapping(SegKey(segs[1])),
                      Tail(segs))

resolve_ref(d, schema) ==
    IF "ref" \in DOMAIN schema
    THEN resolve_walk(schema, d, TRUE, Tail(split(schema.ref, "/")))
    ELSE Ok(schema)

\* the loop of lines 165-170 on the specs still to resolve; an exception of
\* _resolve_ref leaves it
RECURSIVE resolve_specs_from(_, _, _)
resolve_specs_from(d, param_specs, resolved_specs) ==
    IF Len(param_specs) = 0 THEN Ok(resolved_specs)
    ELSE IF "ref" \in DOMAIN param_specs[1]
    THEN LET resolved_spec == resolve_ref(d, param_specs[1]) IN
         IF resolved_spec.exc # "none" THEN resolved_spec
         ELSE resolve_specs_from(d, Tail(param_specs),
                                 Append(resolved_specs, resolved_spec.val))
    ELSE resolve_specs_from(d, Tail(param_specs), Append(resolved_specs, param_specs[1]))

\* lines 163-171
resolve_param_specs(d, param_specs) == resolve_specs_from(d, param_specs, <<>>)

\* None, or the base path text
get_base_url(d) ==
    IF "servers" \in DOMAIN d
    THEN [isNone |-> FALSE, text |-> urlparse(d.servers[1].url).path]
    ELSE IF "basePath" \in DOMAIN d
    THEN [isNone |-> FALSE, text |-> d.basePath]
    ELSE [isNone |-> TRUE]

validate_url(d, url) ==
    LET base_url == get_base_url(d) IN
    base_url.isNone \/ startswith(urlparse(url).path, base_url.text)

\* f"{x}" of an optional text: str(None) is "None"
FormatOpt(x) == IF x.isNone THEN <<"None">> ELSE x.text

\* line 46-48: url.startswith(f"{scheme}://{netloc}{self._get_base_url()}")
base_prefix_ok(d, url) ==
    LET parsed_url == urlparse(url) IN
    startswith(url, parsed_url.scheme \o <<"://">> \o parsed_url.netloc
                    \o FormatOpt(get_base_url(d)))

\* re.findall(r'\{([^}]+)\}', endpoint); a placeholder's name is one token
RECURSIVE extract_path_params(_)
extract_path_params(endpoint) ==
    LET i == IndexOf(endpoint, "{")
        after == SubSeq(endpoint, i + 1, Len(endpoint))
        j == IndexOf(after, "}")
    IN  IF i = 0 \/ j = 0 THEN <<>>
        ELSE IF j = 1 THEN extract_path_params(after)
        ELSE <<after[1]>>
             \o extract_path_params(SubSeq(after, j + 1, Len(after)))

InText(t, s) == \E i \in 1..Len(s) : s[i] = t

\* one part of _format_endpoint: every branch appends the part unchanged;
\* the last branch reads self.openapi_spec["paths"]
format_part(d, part) ==
    IF Len(part) > 0 /\ part[1] = "{" /\ part[Len(part)] = "}" THEN Ok(part)
    ELSE IF InText("{", part) /\ InText("}", part) THEN Ok(part)
    ELSE IF InText("_", part) THEN Ok(part)
    ELSE IF "paths" \notin DOMAIN d THEN Raise("KeyError", <<"paths">>)
    ELSE IF \E spec_endpoint \in DOMAIN d.paths :
                \E n \in 1..Len(split(spec_endpoint, "/")) :
                    split(spec_endpoint, "/")[n] = part
         THEN Ok(part)
         ELSE Ok(part)

format_endpoint(d, endpoint) ==
    LET parts == split(endpoint, "/")
        formatted_parts == [n \in 1..Len(parts) |-> format_part(d, parts[n])]
    IN  IF \E n \in 1..Len(parts) : formatted_parts[n].exc # "none"
        THEN formatted_parts[CHOOSE n \in 1..Len(parts) : formatted_parts[n].exc # "none"]
        ELSE Ok(join([n \in 1..Len(parts) |-> formatted_parts[n].val], "/"))

-----------------------------------------------------------------------------
(* Parameter validator *)

\* str(value)
PyStrOf(value) ==
    CASE value.tag = "str" -> value.s
      [] value.tag = "int" -> StrOfNat(value.n)
      [] value.tag = "bool" -> IF value.b THEN <<"True">> ELSE <<"False">>
      [] value.tag = "num" ->
            StrOfNat(value.h \div 100) \o <<".">> \o StrOfNat((value.h % 100) \div 10)
            \o (IF value.h % 10 = 0 THEN <<>> ELSE StrOfNat(value.h % 10))
      [] OTHER -> <<"?">>

\* the lambdas of type_checks; bool is a subclass of int
type_check(expected_type, x) ==
    CASE expected_type = "string" -> x.tag = "str"
      [] expected_type = "integer" ->
            x.tag \in {"int", "bool"} \/ (x.tag = "str" /\ isdigit(x.s))
      [] expected_type = "number" ->
            x.tag \in {"int", "bool", "num"}
            \/ (x.tag = "str" /\ isdigit(remove(x.s, ".")))
      [] expected_type = "boolean" ->
            x.tag = "bool" \/ (x.tag = "str" /\ lower(x.s) \in {<<"true">>, <<"false">>})
      [] OTHER -> TRUE

validate_param_type(param_name, param_value, expected_type) ==
    IF expected_type \in {"string", "integer", "number", "boolean"}
       /\ ~type_check(expected_type, param_value)
    THEN Raise("ValueError", <<"Invalid type for parameter", param_name>>)
    ELSE Ok(PyNone)

validate_enum(param_name, param_value, enum_values) ==
    IF Len(enum_values) > 0
       /\ ~(\E n \in 1..Len(enum_values) : enum_values[n] = param_value)
    THEN Raise("ValueError", <<"Invalid value for parameter", param_name>>)
    ELSE Ok(PyNone)

\* re.match(pattern, text) for the patterns the documents use: "^", "$",
\* "[0-9]+" and literal tokens; "(" alone does not compile
re_compiles(pattern) == ~InText("(", pattern)

re_match(pattern, text) ==
    LET body == remove(remove(pattern, "^"), "$")
        anchored == InText("$", pattern)
    IN  IF body = <<"[0-9]+">>
        THEN IF anchored THEN isdigit(text)
             ELSE Len(text) > 0 /\ IsDigitChar(text[1])
        ELSE IF anchored THEN text = body ELSE startswith(text, body)

validate_pattern(param_name, param_value, pattern) ==
    IF Len(pattern) = 0 THEN Ok(PyNone)
    ELSE IF ~re_compiles(pattern) THEN Raise("re.error", pattern)
    ELSE IF ~re_match(pattern, PyStrOf(param_value))
    THEN Raise("ValueError", <<"Invalid format for parameter", param_name>>)
    ELSE Ok(PyNone)

\* all_params.update({k: v[0] ...}) for the query parameters
RECURSIVE update_first(_, _)
update_first(all_params, query_params) ==
    IF Len(query_params) = 0 THEN all_params
    ELSE update_first(Put(all_params, query_params[1].k, PyStr(query_params[1].v[1])),
                      Tail(query_params))

\* lines 130-131; {**params} of a truthy value that is no mapping raises
combine_params(params, query_params) ==
    IF params.tag = "null" THEN Ok(update_first(<<>>, query_params))
    ELSE IF params.tag \in {"obj", "arr"} /\ Len(params.items) = 0
    THEN Ok(update_first(<<>>, query_params))
    ELSE IF params.tag = "obj" THEN Ok(update_first(params.items, query_params))
    ELSE Raise("TypeError", <<"not a mapping">>)

\* the checks of one present parameter, lines 150-158
check_present(d, param_spec, param_value) ==
    LET resolved == resolve_ref(d, GetOr(param_spec, "schema", EmptyMapping))
        schema == resolved.val
        t == validate_param_type(param_spec.name, param_value, GetOr(schema, "type", "None"))
        e == validate_enum(param_spec.name, param_value, GetOr(schema, "enum", <<>>))
        p == validate_pattern(param_spec.name, param_value, GetOr(schema, "pattern", <<>>))
    IN  IF resolved.exc # "none" THEN resolved
        ELSE IF t.exc # "none" THEN t
        ELSE IF e.exc # "none" THEN e
        ELSE p

\* check_specs with the test of line 160 dropped: an absent parameter is skipped
RECURSIVE check_specs_absent_skipped(_, _, _, _, _)
check_specs_absent_skipped(d, specs, n, all_params, path_params) ==
    IF n > Len(specs) THEN Ok(PyNone)
    ELSE IF "name" \notin DOMAIN specs[n]
    THEN check_specs_absent_skipped(d, specs, n + 1, all_params, path_params)
    ELSE IF Has(all_params, specs[n].name)
    THEN LET r == check_present(d, specs[n], Get(all_params, specs[n].name)) IN
         IF r.exc # "none" THEN r
         ELSE check_specs_absent_skipped(d, specs, n + 1, all_params, path_params)
    ELSE check_specs_absent_skipped(d, specs, n + 1, all_params, path_params)

\* check_specs as two passes: the type, enum and pattern checks of every
\* present parameter first (n in 1..Len), the test of line 160 after them
RECURSIVE check_specs_present_first(_, _, _, _, _)
check_specs_present_first(d, specs, n, all_params, path_params) ==
    LET m == n - Len(specs) IN
    IF n > 2 * Len(specs) THEN Ok(PyNone)
    ELSE IF n <= Len(specs)
    THEN IF "name" \in DOMAIN specs[n] /\ Has(all_params, specs[n].name)
         THEN LET r == check_present(d, specs[n], Get(all_params, specs[n].name)) IN
              IF r.exc # "none" THEN r
              ELSE check_specs_present_first(d, specs, n + 1, all_params, path_params)
         ELSE check_specs_present_first(d, specs, n + 1, all_params, path_params)
    ELSE IF /\ "name" \in DOMAIN specs[m]
            /\ ~Has(all_params, specs[m].name)
            /\ GetOr(specs[m], "required", FALSE)
            /\ ~InText(specs[m].name, path_params)
    THEN Raise("ValueError", <<"Missing required parameter", specs[m].name>>)
    ELSE check_specs_present_first(d, specs, n + 1, all_params, path_params)

\* the loop of lines 143-161 from the n-th parameter spec on
RECURSIVE check_specs(_, _, _, _, _)
check_specs(d, specs, n, all_params, path_params) ==
    IF n > Len(specs) THEN Ok(PyNone)
    ELSE IF "name" \notin DOMAIN specs[n]
    THEN check_specs(d, specs, n + 1, all_params, path_params)
    ELSE IF Has(all_params, specs[n].name)
    THEN LET r == check_present(d, specs[n], Get(all_params, specs[n].name)) IN
         IF r.exc # "none" THEN r
         ELSE check_specs(d, specs, n + 1, all_params, path_params)
    ELSE IF GetOr(specs[n], "required", FALSE) /\ ~InText(specs[n].name, path_params)
    THEN Raise("ValueError", <<"Missing required parameter", specs[n].name>>)
    ELSE check_specs(d, specs, n + 1, all_params, path_params)

\* the names of the set difference at line 139, in the order of all_params
\* (Python iterates the set in an unspecified order)
unexpected(all_params, expected_params) ==
    SelectSeq(Keys(all_params), LAMBDA key : key \notin expected_params)

validate_params(d, params, query_params, path_params, param_specs) ==
    LET resolved == resolve_param_specs(d, param_specs)
        resolved_param_specs == resolved.val
        combined == combine_params(params, query_params)
        all_params == combined.val
        missing == SelectSeq(path_params, LAMBDA path_param : ~Has(all_params, path_param))
        expected_params ==
            {resolved_param_specs[n].name :
                n \in {m \in 1..Len(resolved_param_specs) :
                            "name" \in DOMAIN resolved_param_specs[m]}}
            \cup {path_params[n] : n \in 1..Len(path_params)}
        unexpected_params == unexpected(all_params, expected_params)
    IN  IF resolved.exc # "none" THEN resolved
        ELSE IF combined.exc # "none" THEN combined
        ELSE IF Len(missing) > 0
        THEN Raise("ValueError", <<"Missing path parameter", missing[1]>>)
        ELSE IF Len(unexpected_params) > 0
        THEN Raise("ValueError", <<"Unexpected parameter(s)">> \o unexpected_params)
        ELSE check_specs(d, resolved_param_specs, 1, all_params, path_params)

-----------------------------------------------------------------------------
(* Request checker: lines 30-68 up to the call of the generator *)

max_recursion_depth == 10

\* next((code for code in response_spec.keys() if code.startswith("2")), "200")
select_success_code(response_spec) ==
    LET twos == SelectSeq(Keys(response_spec), LAMBDA c : startswith(c, <<"2">>)) IN
    IF Len(twos) > 0 THEN twos[1] ELSE <<"2", "0", "0">>

\* lines 57-68: the code, and what mock_response is to be
select_response(endpoint_spec) ==
    IF "responses" \notin DOMAIN endpoint_spec THEN Raise("KeyError", <<"responses">>)
    ELSE LET response_spec == endpoint_spec.responses
             success_code == select_success_code(response_spec)
         IN  IF success_code = <<"2", "0", "4">>
             THEN Ok([success_code |-> success_code, kind |-> "none"])
             ELSE IF ~Has(response_spec, success_code)
             THEN Raise("KeyError", success_code)
             ELSE IF "content" \in DOMAIN Get(response_spec, success_code)
             THEN LET content == Get(response_spec, success_code).content IN
                  IF "application/json" \notin DOMAIN content
                  THEN Raise("KeyError", <<"application/json">>)
                  ELSE IF "schema" \notin DOMAIN content["application/json"]
                  THEN Raise("KeyError", <<"schema">>)
                  ELSE Ok([success_code |-> success_code, kind |-> "generate",
                           schema |-> content["application/json"].schema])
             ELSE Ok([success_code |-> success_code, kind |-> "empty"])

\* method.lower() as a key of the path item
method_key(method) == lower(method)[1]

\* lines 30-55 for the request r on the document d: the operation, or the
\* exception raised
validate_request(d, r) ==
    LET parsed_url == urlparse(r.url)
        query_params == parse_qs(parsed_url.query)
        path_params == extract_path_params(r.endpoint)
        formatted == format_endpoint(d, r.endpoint)
        formatted_endpoint == formatted.val
        endpoint_spec == d.paths[formatted_endpoint][method_key(r.method)]
        validated == validate_params(d, r.params, query_params, path_params,
                                     GetOr(endpoint_spec, "parameters", <<>>))
    IN  IF ~validate_url(d, r.url) THEN Raise("ValueError", <<"Invalid URL">>)
        ELSE IF formatted.exc # "none" THEN formatted
        ELSE IF "paths" \notin DOMAIN d THEN Raise("KeyError", <<"paths">>)
        ELSE IF formatted_endpoint \notin DOMAIN d.paths
        THEN Raise("ValueError", <<"Endpoint not found in OpenAPI spec">>)
        ELSE IF method_key(r.method) \notin DOMAIN d.paths[formatted_endpoint]
        THEN Raise("ValueError", <<"Method not found for endpoint">>)
        ELSE IF ~base_prefix_ok(d, r.url)
        THEN Raise("ValueError", <<"URL does not match the base URL defined in the OpenAPI spec">>)
        ELSE IF validated.exc # "none" THEN validated
        ELSE Ok(endpoint_spec)

\* lines 30-68
check_request(d, r) ==
    LET checked == validate_request(d, r) IN
    IF checked.exc # "none" THEN checked ELSE select_response(checked.val)

\* str(ve): the text of a raised ValueError
ErrorText(msg) == PyStr(msg)

ErrorData(text) == PyDict(<<[k |-> "error", v |-> text]>>)

\* handle_exception with the second except clause catching KeyError only
handle_exception_keyerror_only(e) ==
    IF e.exc = "ValueError"
    THEN [status_code |-> 400, data |-> ErrorData(ErrorText(e.msg))]
    ELSE IF e.exc = "KeyError"
    THEN [status_code |-> 500, data |-> ErrorData(PyStr(<<"Internal server error">>))]
    ELSE [propagated |-> e.exc]

\* lines 81-87: the except clauses
handle_exception(e) ==
    IF e.exc = "ValueError"
    THEN [status_code |-> 400, data |-> ErrorData(ErrorText(e.msg))]
    ELSE [status_code |-> 500, data |-> ErrorData(PyStr(<<"Internal server error">>))]

\* line 79: int(success_code) raises ValueError on a text that is no number
return_verdict(success_code, mock_response) ==
    IF isdigit(success_code)
    THEN [status_code |-> DigitsValue(success_code, 0), data |-> mock_response]
    ELSE handle_exception(Raise("ValueError",
            <<"invalid literal for int() with base 10">> \o success_code))

-----------------------------------------------------------------------------
(* The random source and Faker *)

\* how many distinct words, dates and floats the sources are sampled at
FakerSamples == 2
NumberSamples == 3

\* random.randint(a, b)
randint(a, b) == a..b

\* random.choice(seq)
choice(seq) == {seq[n] : n \in 1..Len(seq)}

\* round(random.uniform(0, 100), 2), in hundredths
uniform_0_100 == {(n * 10000) \div (NumberSamples - 1) : n \in 0..(NumberSamples - 1)}

fake_word == {PyStr(<<"word", StrOfNat(n)[1]>>) : n \in 1..FakerSamples}
fake_iso8601 == {PyStr(<<"2001-01-01T00:00:0", StrOfNat(n)[1]>>) : n \in 1..FakerSamples}
fake_date == {PyStr(<<"2020-01-0", StrOfNat(n)[1]>>) : n \in 1..FakerSamples}

-----------------------------------------------------------------------------
(* Mock value generator: _generate_mock_response as frames on a stack *)

Sentinel == PyStr(<<"Max recursion depth exceeded">>)

Frame(schema, depth) ==
    [schema |-> schema, depth |-> depth, phase |-> "call", acc |-> <<>>, n |-> 0,
     val |-> PyNone]

Top == stack[Len(stack)]

NoReturn == [schema |-> EmptyMapping, depth |-> -1, value |-> PyNone]

\* the depth guard comparing with one more than the bound
depth_exceeded_late(depth) == depth > max_recursion_depth + 1

\* line 205: the depth guard
depth_exceeded(depth) == depth > max_recursion_depth

\* the depth of a recursive call made by a frame at `depth`
child_depth(depth) == depth + 1

\* lines 210-213: the walk ref_schema = ref_schema[path], a KeyError when a key is missing
RECURSIVE lookup_walk(_, _)
lookup_walk(at, segs) ==
    IF Len(segs) = 0 THEN Ok(at)
    ELSE IF SegKey(segs[1]) \notin DOMAIN at THEN Raise("KeyError", segs[1])
    ELSE lookup_walk(at[SegKey(segs[1])], Tail(segs))

lookup_ref(d, schema) == lookup_walk(d, Tail(split(schema.ref, "/")))

\* a scalar branch that falls through to the final "return {}" on some draws
scalar_outcomes_or_empty(schema) == {PyStr(<<"word">>), PyDict(<<>>)}

\* the values lines 231-245 can return for a scalar schema
scalar_outcomes(schema) ==
    CASE schema.type = "string" ->
            IF "enum" \in DOMAIN schema THEN choice(schema.enum)
            ELSE IF "format" \in DOMAIN schema /\ schema.format = "date-time"
            THEN fake_iso8601
            ELSE IF "format" \in DOMAIN schema /\ schema.format = "date"
            THEN fake_date
            ELSE fake_word
      [] schema.type = "number" -> {PyNum(h) : h \in uniform_0_100}
      [] schema.type = "integer" -> {PyInt(n) : n \in randint(0, 100)}
      [] schema.type = "boolean" -> choice(<<PyBool(TRUE), PyBool(FALSE)>>)

IsScalarType(t) == t \in {"string", "number", "integer", "boolean"}

\* the item count drawn from 0 on
array_count_from_zero == randint(0, 3)

\* the number of items an array frame generates
array_count == randint(1, 3)

\* the frame below the top one takes the value its callee returned
receive(parent, value) ==
    CASE parent.phase = "ref" -> [parent EXCEPT !.phase = "return", !.val = value]
      [] parent.phase = "props" ->
            [parent EXCEPT !.acc =
                Append(@, [k |-> parent.schema.properties[Len(parent.acc) + 1].k,
                           v |-> value])]
      [] parent.phase = "items" -> [parent EXCEPT !.acc = Append(@, value)]

\* the top frame returns `value`
Return(value) ==
    /\ lastRet' = [schema |-> Top.schema, depth |-> Top.depth, value |-> value]
    /\ maxFrames' = maxFrames
    /\ IF Len(stack) = 1
       THEN /\ stack' = <<>>
            /\ mock' = value
            /\ pc' = "audit"
       ELSE /\ stack' = Append(SubSeq(stack, 1, Len(stack) - 2),
                               receive(stack[Len(stack) - 1], value))
            /\ mock' = mock
            /\ pc' = pc
    /\ UNCHANGED <<doc, req, ref_schema, resolved_schema, code, audit, verdict, first, run>>

\* the top frame, now in `phase`, calls the generator on `schema`
Call(phase, n, schema) ==
    /\ stack' = Append([stack EXCEPT ![Len(stack)].phase = phase, ![Len(stack)].n = n],
                       Frame(schema, child_depth(Top.depth)))
    /\ maxFrames' = IF Len(stack) + 1 > maxFrames THEN Len(stack) + 1 ELSE maxFrames
    /\ UNCHANGED <<doc, req, ref_schema, resolved_schema, pc, code, lastRet, mock, audit, verdict, first, run>>

\* an exception leaves every frame and reaches line 84
GenRaise(e) ==
    /\ stack' = <<>>
    /\ verdict' = handle_exception(e)
    /\ pc' = "done"
    /\ UNCHANGED <<doc, req, ref_schema, resolved_schema, code, maxFrames, lastRet, mock, audit, first, run>>

Entering == pc = "gen" /\ Len(stack) > 0 /\ Top.phase = "call"

\* lines 205-206
GenTruncate ==
    /\ Entering
    /\ depth_exceeded(Top.depth)
    /\ Return(Sentinel)

Dispatching == Entering /\ ~depth_exceeded(Top.depth)

\* lines 208-214, the "$ref" found
GenRef ==
    /\ Dispatching
    /\ "type" \notin DOMAIN Top.schema
    /\ "ref" \in DOMAIN Top.schema
    /\ lookup_ref(doc, Top.schema).exc = "none"
    /\ Call("ref", 0, lookup_ref(doc, Top.schema).val)

\* lines 210-213, a segment missing
GenRefMissing ==
    /\ Dispatching
    /\ "type" \notin DOMAIN Top.schema
    /\ "ref" \in DOMAIN Top.schema
    /\ lookup_ref(doc, Top.schema).exc # "none"
    /\ GenRaise(lookup_ref(doc, Top.schema))

\* line 214: return the callee's value
GenRefReturn ==
    /\ pc = "gen" /\ Len(stack) > 0
    /\ Top.phase = "return"
    /\ Return(Top.val)

\* line 215 and lines 246-248: no type and no "$ref", or a type that is not known
GenEmpty ==
    /\ Dispatching
    /\ \/ "type" \notin DOMAIN Top.schema /\ "ref" \notin DOMAIN Top.schema
       \/ /\ "type" \in DOMAIN Top.schema
          /\ ~IsScalarType(Top.schema.type)
          /\ Top.schema.type \notin {"object", "array"}
    /\ Return(PyDict(<<>>))

\* lines 217-219: start an object
GenObject ==
    /\ Dispatching
    /\ "type" \in DOMAIN Top.schema /\ Top.schema.type = "object"
    /\ stack' = [stack EXCEPT ![Len(stack)].phase = "props"]
    /\ UNCHANGED <<doc, req, ref_schema, resolved_schema, pc, code, maxFrames, lastRet, mock, audit, verdict, first, run>>

Properties(schema) == GetOr(schema, "properties", <<>>)

\* lines 220-223: the next property
GenProperty ==
    /\ pc = "gen" /\ Len(stack) > 0
    /\ Top.phase = "props"
    /\ Len(Top.acc) < Len(Properties(Top.schema))
    /\ Call("props", 0, Properties(Top.schema)[Len(Top.acc) + 1].v)

\* line 224
GenObjectReturn ==
    /\ pc = "gen" /\ Len(stack) > 0
    /\ Top.phase = "props"
    /\ Len(Top.acc) = Len(Properties(Top.schema))
    /\ Return(PyDict(Top.acc))

\* lines 225-229: random.randint(1, 3) items
GenArray ==
    /\ Dispatching
    /\ "type" \in DOMAIN Top.schema /\ Top.schema.type = "array"
    /\ \E count \in array_count :
          stack' = [stack EXCEPT ![Len(stack)].phase = "items", ![Len(stack)].n = count]
    /\ UNCHANGED <<doc, req, ref_schema, resolved_schema, pc, code, maxFrames, lastRet, mock, audit, verdict, first, run>>

\* line 228: the next item
GenItem ==
    /\ pc = "gen" /\ Len(stack) > 0
    /\ Top.phase = "items"
    /\ Len(Top.acc) < Top.n
    /\ Call("items", Top.n, GetOr(Top.schema, "items", EmptyMapping))

\* line 227-230: the list is complete
GenArrayReturn ==
    /\ pc = "gen" /\ Len(stack) > 0
    /\ Top.phase = "items"
    /\ Len(Top.acc) = Top.n
    /\ Return(PyList(Top.acc))

\* lines 231-245
GenScalar ==
    /\ Dispatching
    /\ "type" \in DOMAIN Top.schema /\ IsScalarType(Top.schema.type)
    /\ \E value \in scalar_outcomes(Top.schema) : Return(value)

\* line 233: random.choice of an empty enum raises IndexError
GenChoiceFail ==
    /\ Dispatching
    /\ "type" \in DOMAIN Top.schema /\ Top.schema.type = "string"
    /\ "enum" \in DOMAIN Top.schema /\ Len(Top.schema.enum) = 0
    /\ GenRaise(Raise("IndexError", <<"Cannot choose from an empty sequence">>))

Generate ==
    \/ GenTruncate
    \/ GenRef
    \/ GenRefMissing
    \/ GenRefReturn
    \/ GenEmpty
    \/ GenObject
    \/ GenProperty
    \/ GenObjectReturn
    \/ GenArray
    \/ GenItem
    \/ GenArrayReturn
    \/ GenScalar
    \/ GenChoiceFail

-----------------------------------------------------------------------------
(* The requests the checker is called with *)

UrlAccount == ServerUrl \o <<"/", "accounts", "/", "123">>
UrlList == ServerUrl \o <<"/", "accounts", "?", "limit", "=", "5">>
UrlListBad == ServerUrl \o <<"/", "accounts", "?", "limit", "=", "abc">>
UrlStatusOnly == ServerUrl \o <<"/", "accounts", "?", "status", "=", "bogus">>
UrlBare == <<"https", "://", "api.example.com", "/", "accounts">>

Urls == {UrlAccount, UrlList, UrlListBad, UrlStatusOnly, UrlBare}

Methods == {<<"GET">>, <<"post">>}

Endpoints == {PathAccount, PathAccounts, PathTransfers, PathReports, PathEvents, PathNope}

ParamSets ==
    {PyNone,
     PyDict(<<[k |-> "id", v |-> PyStr(<<"1", "2", "3">>)]>>),
     PyDict(<<[k |-> "limit", v |-> PyInt(5)]>>),
     PyDict(<<[k |-> "z", v |-> PyStr(<<"1">>)]>>),
     PyDict(<<[k |-> "amount", v |-> PyStr(<<"1", ".", "5">>)],
              [k |-> "code", v |-> PyStr(<<"1", "2">>)]>>),
     PyDict(<<[k |-> "amount", v |-> PyStr(<<"1", ".", "5">>)],
              [k |-> "code", v |-> PyStr(<<"x", "1">>)]>>),
     PyList(<<PyInt(1)>>)}

Requests ==
    [url : Urls, method : Methods, endpoint : Endpoints, params : ParamSets]

-----------------------------------------------------------------------------
(* The call of mock_execute_request, and the batch that repeats it *)

NoVerdict == PyNone

\* no call of _resolve_ref has returned
NotResolved == [exc |-> "pending"]

Init ==
    /\ doc \in Docs
    /\ req \in Requests
    /\ pc = "start"
    /\ code = <<>>
    /\ stack = <<>>
    /\ maxFrames = 0
    /\ lastRet = NoReturn
    /\ mock = PyNone
    /\ audit = "none"
    /\ verdict = NoVerdict
    /\ first = NoVerdict
    /\ run = 1
    /\ ref_schema = EmptyMapping
    /\ resolved_schema = NotResolved

\* lines 30-68: the checks, the selection of the response, and either an
\* exception caught at lines 81-87, a mock_response that needs no generation,
\* or the first call of the generator at line 66
CheckRequest ==
    /\ pc = "start"
    /\ LET r == check_request(doc, req) IN
       IF r.exc # "none"
       THEN /\ verdict' = handle_exception(r)
            /\ pc' = "done"
            /\ UNCHANGED <<code, stack, maxFrames, mock>>
       ELSE /\ code' = r.val.success_code
            /\ verdict' = verdict
            /\ IF r.val.kind = "generate"
               THEN /\ stack' = <<Frame(r.val.schema, 0)>>
                    /\ maxFrames' = 1
                    /\ pc' = "gen"
                    /\ mock' = mock
               ELSE /\ mock' = IF r.val.kind = "none" THEN PyNone ELSE PyDict(<<>>)
                    /\ pc' = "audit"
                    /\ UNCHANGED <<stack, maxFrames>>
    /\ UNCHANGED <<doc, req, ref_schema, resolved_schema, lastRet, audit, first, run>>

\* what jsonschema.validate does with the mock at lines 72-73: it returns, or
\* raises (a mismatch, a schema it cannot use); both are only logged
audit_outcomes(mock_response) ==
    IF mock_response = PyNone THEN {"skipped"} ELSE {"validated", "error"}

\* lines 70-79
AuditAndReturn ==
    /\ pc = "audit"
    /\ audit' \in audit_outcomes(mock)
    /\ verdict' = return_verdict(code, mock)
    /\ pc' = "done"
    /\ UNCHANGED <<doc, req, ref_schema, resolved_schema, code, stack, maxFrames, lastRet, mock, first, run>>

\* match_and_execute_requests meets the same request again: a new Checker on
\* the same document, the same arguments
Rerun ==
    /\ pc = "done"
    /\ run = 1
    /\ first' = verdict
    /\ run' = 2
    /\ pc' = "start"
    /\ code' = <<>>
    /\ stack' = <<>>
    /\ maxFrames' = 0
    /\ lastRet' = NoReturn
    /\ mock' = PyNone
    /\ audit' = "none"
    /\ verdict' = NoVerdict
    /\ UNCHANGED <<doc, req, ref_schema, resolved_schema>>

Next ==
    \/ CheckRequest
    \/ Generate
    \/ AuditAndReturn
    \/ Rerun

Spec == Init /\ [][Next]_vars

-----------------------------------------------------------------------------
(* The generator alone, called at depth 0 on a schema *)

\* leaf under k nested single-property objects: leaf is generated at depth k
RECURSIVE Nest(_, _)
Nest(k, leaf) ==
    IF k = 0 THEN leaf
    ELSE [type |-> "object", properties |-> <<[k |-> "inner", v |-> Nest(k - 1, leaf)]>>]

MatrixSchema == [type |-> "array", items |-> TagsSchema]

GenSchemas ==
    {Ref("Account"), Ref("Counter"), Ref("Node"), Ref("Missing"), Ref("Event"),
     NodeSchema, LoopSchema, TagsSchema, MatrixSchema, NoChoiceSchema,
     BareObjectSchema, BareArraySchema,
     Nest(max_recursion_depth, IntegerSchema),
     Nest(max_recursion_depth, TagsSchema),
     Nest(max_recursion_depth + 1, IntegerSchema),
     Nest(max_recursion_depth + 1, TagsSchema),
     Nest(max_recursion_depth + 1, CurrencySchema)}

InitGen ==
    /\ doc = DocV3
    /\ req = [url |-> UrlAccount, method |-> <<"GET">>, endpoint |-> PathReports,
              params |-> PyNone]
    /\ pc = "gen"
    /\ code = C200
    /\ \E schema \in GenSchemas : stack = <<Frame(schema, 0)>>
    /\ maxFrames = 1
    /\ lastRet = NoReturn
    /\ mock = PyNone
    /\ audit = "none"
    /\ verdict = NoVerdict
    /\ first = NoVerdict
    /\ run = 1
    /\ ref_schema = EmptyMapping
    /\ resolved_schema = NotResolved

\* every call made is run to its return: a single thread, no suspension points
SpecGen == InitGen /\ [][Generate]_vars /\ WF_vars(Generate)

-----------------------------------------------------------------------------
(* Properties *)

Done == pc = "done"

IsVerdict(v) ==
    /\ DOMAIN v = {"status_code", "data"}
    /\ v.status_code \in Int

IsError(v, status, head) ==
    /\ IsVerdict(v)
    /\ v.status_code = status
    /\ v.data.tag = "obj"
    /\ Len(v.data.items) = 1
    /\ v.data.items[1].k = "error"
    /\ v.data.items[1].v.s[1] = head

InternalError(v) == v = [status_code |-> 500,
                         data |-> ErrorData(PyStr(<<"Internal server error">>))]

\* C1: every call of mock_execute_request ends by returning a Verdict with an
\* integer status_code and a data field, whichever stage raised: a call that
\* is generating always has a next step, and a call that has ended has
\* returned a Verdict, not an exception
C1_AlwaysVerdict ==
    /\ pc \in {"start", "gen", "audit", "done"}
    /\ pc = "gen" => ENABLED Generate
    /\ pc = "audit" => ENABLED AuditAndReturn
    /\ Done => IsVerdict(verdict)

\* C1 witness: an exception raised inside the generator ended as a Verdict
C1_Witness ==
    /\ Done
    /\ maxFrames > 0
    /\ InternalError(verdict)

\* the request names a path of the document and a method declared under it
EndpointAndMethodMatch ==
    /\ "paths" \in DOMAIN doc
    /\ req.endpoint \in DOMAIN doc.paths
    /\ method_key(req.method) \in DOMAIN doc.paths[req.endpoint]

Operation == doc.paths[req.endpoint][method_key(req.method)]

\* the URL's path begins with the document's base path, when it has one
UrlConsistent ==
    LET base == IF "servers" \in DOMAIN doc THEN urlparse(doc.servers[1].url).path
                ELSE IF "basePath" \in DOMAIN doc THEN doc.basePath
                ELSE <<>>
    IN  startswith(urlparse(req.url).path, base)

ParamsAccepted ==
    validate_params(doc, req.params, parse_qs(urlparse(req.url).query),
                    extract_path_params(req.endpoint),
                    GetOr(Operation, "parameters", <<>>)).exc = "none"

\* C2: a valid (spec, request) pair, with the endpoint a key of paths, the
\* method declared, the URL consistent with the base URL and the parameters
\* supplied and well-typed, gets a status_code below 400
C2_ValidRequestSucceeds ==
    (Done /\ EndpointAndMethodMatch /\ UrlConsistent /\ ParamsAccepted)
        => verdict.status_code < 400

HasNoBase == "servers" \notin DOMAIN doc /\ "basePath" \notin DOMAIN doc

\* C3: with neither servers nor basePath in the document, a request that
\* passes endpoint and method matching is never rejected with a URL or
\* base-URL error
C3_NoBaseNeverRejectsUrl ==
    (Done /\ HasNoBase /\ EndpointAndMethodMatch)
        => /\ ~IsError(verdict, 400, "Invalid URL")
           /\ ~IsError(verdict, 400, "URL does not match the base URL defined in the OpenAPI spec")

\* a check of lines 30-55 failed: the URL, the endpoint, the method, the base
\* URL or a parameter
ValidationFailed == validate_request(doc, req).exc = "ValueError"

\* C4: a failure Verdict has status_code 400 and data {"error": message}
\* exactly when a validation check failed, and every other failure has
\* status_code 500 and the fixed data {"error": "Internal server error"}
C4_FailuresPartitioned ==
    Done =>
        /\ verdict.status_code = 400 <=> ValidationFailed
        /\ (verdict.status_code >= 400 /\ ~ValidationFailed) => InternalError(verdict)

PassesValidation == validate_request(doc, req).exc = "none"

First2xx(response_spec) ==
    response_spec[CHOOSE i \in 1..Len(response_spec) :
                    /\ response_spec[i].k[1] = "2"
                    /\ \A j \in 1..(i - 1) : response_spec[j].k[1] # "2"].k

Declares2xx(response_spec) == \E i \in 1..Len(response_spec) : response_spec[i].k[1] = "2"

\* C5: for a request that passes validation, status_code is the integer value
\* of the first key of responses that starts with "2" (when the response under
\* it can be generated), and 200 when there is no such key
C5_StatusFromResponses ==
    (Done /\ PassesValidation /\ "responses" \in DOMAIN Operation) =>
        IF Declares2xx(Operation.responses)
        THEN (isdigit(First2xx(Operation.responses)) /\ ~InternalError(verdict))
                => verdict.status_code = DigitsValue(First2xx(Operation.responses), 0)
        ELSE verdict.status_code = 200

\* the response the claim calls selected: the one under the first "2" key
SelectedResponse == Get(Operation.responses, First2xx(Operation.responses))

DeclaresJsonSchema(response) ==
    /\ "content" \in DOMAIN response
    /\ "application/json" \in DOMAIN response.content
    /\ "schema" \in DOMAIN response.content["application/json"]

\* C6: for a validated request whose success code is not "204": with a schema
\* under content["application/json"] data is the generated mock; with content
\* that has no JSON media type, or without content, the Verdict has the
\* success status code and data is the empty mapping
C6_DataFromContent ==
    (/\ Done /\ PassesValidation /\ "responses" \in DOMAIN Operation
     /\ Declares2xx(Operation.responses)
     /\ isdigit(First2xx(Operation.responses))
     /\ First2xx(Operation.responses) # <<"2", "0", "4">>) =>
        IF DeclaresJsonSchema(SelectedResponse)
        THEN verdict.status_code < 400 => (verdict.data = mock /\ lastRet.value = mock)
        ELSE /\ verdict.status_code = DigitsValue(First2xx(Operation.responses), 0)
             /\ verdict.data = PyDict(<<>>)

\* _resolve_param_specs returns for the operation's parameters
SpecsResolve ==
    resolve_param_specs(doc, GetOr(Operation, "parameters", <<>>)).exc = "none"

ResolvedSpecs ==
    IF SpecsResolve
    THEN resolve_param_specs(doc, GetOr(Operation, "parameters", <<>>)).val
    ELSE <<>>

Combined == combine_params(req.params, parse_qs(urlparse(req.url).query))

Placeholders == extract_path_params(req.endpoint)

Supplied(name) == Combined.exc = "none" /\ Has(Combined.val, name)

\* the n-th declared parameter is required, is no placeholder and is omitted
OmittedRequired(n) ==
    /\ "name" \in DOMAIN ResolvedSpecs[n]
    /\ GetOr(ResolvedSpecs[n], "required", FALSE)
    /\ ~InText(ResolvedSpecs[n].name, Placeholders)
    /\ ~Supplied(ResolvedSpecs[n].name)

SomeOmitted == \E n \in 1..Len(ResolvedSpecs) : OmittedRequired(n)

FirstOmitted ==
    CHOOSE n \in 1..Len(ResolvedSpecs) :
        OmittedRequired(n) /\ \A m \in 1..(n - 1) : ~OmittedRequired(m)

\* C7 as stated: for a request that matches an endpoint and method (and whose
\* URL passes the URL checks, with its parameters a mapping), omitting a
\* parameter declared required (and not a placeholder) yields status_code 400
\* with a message containing "Missing required parameter"
C7_OmittedRequiredReported ==
    (/\ Done /\ EndpointAndMethodMatch /\ SomeOmitted
     /\ validate_url(doc, req.url) /\ base_prefix_ok(doc, req.url)
     /\ Combined.exc = "none")
        => IsError(verdict, 400, "Missing required parameter")

\* no check that comes before the missing parameter in the code's order fails
NothingEarlierFails ==
    /\ validate_url(doc, req.url)
    /\ base_prefix_ok(doc, req.url)
    /\ Combined.exc = "none"
    /\ \A i \in 1..Len(Placeholders) : Supplied(Placeholders[i])
    /\ \A i \in 1..Len(Combined.val) :
          \/ InText(Combined.val[i].k, Placeholders)
          \/ \E n \in 1..Len(ResolvedSpecs) :
                /\ "name" \in DOMAIN ResolvedSpecs[n]
                /\ ResolvedSpecs[n].name = Combined.val[i].k
    /\ \A m \in 1..(FirstOmitted - 1) :
          ("name" \in DOMAIN ResolvedSpecs[m] /\ Supplied(ResolvedSpecs[m].name))
            => check_present(doc, ResolvedSpecs[m],
                             Get(Combined.val, ResolvedSpecs[m].name)).exc = "none"

\* C7 amended: the omitted required parameter is reported, as 400 "Missing
\* required parameter: <name>" for the first one in declaration order, when no
\* earlier check fails: the URL and base-URL checks, the parameters being a
\* mapping, the placeholders, the undeclared parameters, and the type, enum
\* and pattern of the present parameters declared before it
C7_OmittedRequiredReportedInOrder ==
    (Done /\ EndpointAndMethodMatch /\ SomeOmitted /\ NothingEarlierFails)
        => verdict = [status_code |-> 400,
                      data |-> ErrorData(PyStr(<<"Missing required parameter",
                                                 ResolvedSpecs[FirstOmitted].name>>))]

\* C7 witness: a request that only omits the required parameter limit
C7_Witness ==
    /\ Done /\ EndpointAndMethodMatch /\ SomeOmitted /\ NothingEarlierFails
    /\ ResolvedSpecs[FirstOmitted].name = "limit"
    /\ IsError(verdict, 400, "Missing required parameter")

FrameDepthsCount == \A i \in 1..Len(stack) : stack[i].depth = i - 1

NoCallBeyondBound ==
    /\ \A i \in 1..Len(stack) :
          stack[i].depth > max_recursion_depth => (i = Len(stack) /\ stack[i].phase = "call")
    /\ lastRet.depth > max_recursion_depth => lastRet.value = Sentinel

\* C8 as stated: a call at depth > 10 returns the sentinel without recursing,
\* every recursive call uses depth + 1, and at most depth bound + 1 (11)
\* frames are ever active
C8_FramesWithinBoundPlusOne ==
    /\ NoCallBeyondBound
    /\ FrameDepthsCount
    /\ maxFrames <= max_recursion_depth + 1

\* C8 amended: the generator terminates on every schema, cyclic ones included;
\* a call at depth > 10 returns the sentinel without recursing, every
\* recursive call uses depth + 1, and at most depth bound + 2 (12) frames are
\* ever active: the calls at depths 0 to 10 and the call at depth 11 that
\* returns the sentinel
C8_BoundedRecursion ==
    /\ [](NoCallBeyondBound /\ FrameDepthsCount /\ maxFrames <= max_recursion_depth + 2)
    /\ <>(pc # "gen")

\* C8 witness: the self-referring "$ref" was generated to the sentinel with 12
\* frames active
C8_Witness ==
    /\ pc = "audit"
    /\ mock = Sentinel
    /\ maxFrames = max_recursion_depth + 2

\* the value respects what the claim names of its schema node
Conforms(schema, value) ==
    "type" \in DOMAIN schema =>
        /\ schema.type = "array" => (value.tag = "arr" /\ Len(value.items) \in 1..3)
        /\ schema.type = "integer" => (value.tag = "int" /\ value.n \in 0..100)
        /\ (schema.type = "string" /\ "enum" \in DOMAIN schema)
              => \E i \in 1..Len(schema.enum) : schema.enum[i] = value

Returned == lastRet.depth >= 0

\* C9 as stated: every value the generator returns, at any position, respects
\* its schema node: an array has 1 to 3 items, an integer is in [0,100], an
\* enum string is a member of the enum
C9_ValuesRespectSchema == Returned => Conforms(lastRet.schema, lastRet.value)

\* C9 amended: every value returned by a call at depth <= 10 respects its
\* schema node; a call at depth > 10 returns the sentinel string whatever the
\* type of its node
C9_ValuesRespectSchemaWithinDepth ==
    /\ (Returned /\ lastRet.depth <= max_recursion_depth)
            => Conforms(lastRet.schema, lastRet.value)
    /\ lastRet.depth > max_recursion_depth => lastRet.value = Sentinel

\* C9 witness: an integer node at depth 10 returned 100, and an array node at
\* depth 10 with three items is on its way
C9_Witness ==
    /\ lastRet.schema = IntegerSchema
    /\ lastRet.depth = max_recursion_depth
    /\ lastRet.value = PyInt(100)

\* the shape of a value: nesting, keys and sequence structure, scalars erased
RECURSIVE Shape(_)
Shape(v) ==
    CASE v.tag = "obj" ->
            [tag |-> "obj",
             items |-> [i \in 1..Len(v.items) |->
                            [k |-> v.items[i].k, v |-> Shape(v.items[i].v)]]]
      [] v.tag = "arr" ->
            [tag |-> "arr", items |-> [i \in 1..Len(v.items) |-> Shape(v.items[i])]]
      [] v.tag = "null" -> [tag |-> "null"]
      [] OTHER -> [tag |-> "scalar"]

\* the same shape, but for the number of items of a sequence
RECURSIVE Similar(_, _)
Similar(a, b) ==
    CASE a.tag = "obj" ->
            /\ b.tag = "obj"
            /\ Len(a.items) = Len(b.items)
            /\ \A i \in 1..Len(a.items) :
                  /\ a.items[i].k = b.items[i].k
                  /\ Similar(a.items[i].v, b.items[i].v)
      [] a.tag = "arr" ->
            /\ b.tag = "arr"
            /\ \A i \in 1..Len(a.items) : \A j \in 1..Len(b.items) :
                  Similar(a.items[i], b.items[j])
      [] a.tag = "null" -> b.tag = "null"
      [] OTHER -> b.tag \notin {"obj", "arr", "null"}

Repeated == Done /\ run = 2

\* C10 as stated: two runs with the same document and request return the same
\* status_code and data of the same shape, sequence structure included
C10_SameShape ==
    Repeated =>
        /\ verdict.status_code = first.status_code
        /\ Shape(verdict.data) = Shape(first.data)

\* C10 amended: two runs return the same status_code and data of the same
\* nesting and object keys; a sequence generated for an array node may have a
\* different number of items (1 to 3) in each run, its items having the same
\* shape in both
C10_SameShapeUpToLength ==
    Repeated =>
        /\ verdict.status_code = first.status_code
        /\ Similar(verdict.data, first.data)

\* C10 witness: the two runs returned sequences of different lengths
C10_Witness ==
    /\ Repeated
    /\ verdict.data.tag = "arr" /\ first.data.tag = "arr"
    /\ Len(verdict.data.items) # Len(first.data.items)

-----------------------------------------------------------------------------
(* The audit of the mock response, lines 70-79 *)

\* the generator produced the mock and the audit of lines 70-76 ran on it
Audited == Done /\ maxFrames > 0 /\ audit \in {"validated", "error"}

\* C11: the audit is advisory only: once a mock response has been generated,
\* the Verdict returned has the selected success code as its status_code and
\* the generated mock as its data, whether the audit passed or reported an
\* error.
C11_AuditIsAdvisory ==
    Audited =>
        /\ isdigit(code)
        /\ verdict = [status_code |-> DigitsValue(code, 0), data |-> mock]

-----------------------------------------------------------------------------
(* The order of the rules of _validate_params, lines 127-161 *)

\* the request reaches line 55 and its parameters combine at lines 130-131
ReachesValidateParams ==
    /\ Done /\ EndpointAndMethodMatch
    /\ validate_url(doc, req.url) /\ base_prefix_ok(doc, req.url)
    /\ Combined.exc = "none"

\* rule 1: a placeholder of the endpoint has no value
MissingPlaceholders == SelectSeq(Placeholders, LAMBDA name : ~Supplied(name))

\* rule 2: a supplied parameter is neither declared nor a placeholder
Undeclared ==
    SelectSeq(Keys(Combined.val),
              LAMBDA key : /\ ~InText(key, Placeholders)
                           /\ ~\E n \in 1..Len(ResolvedSpecs) :
                                  /\ "name" \in DOMAIN ResolvedSpecs[n]
                                  /\ ResolvedSpecs[n].name = key)

\* rule 3 for the n-th declared parameter: what its type, enum and pattern
\* checks give when it is present
PresentOutcome(n) ==
    IF "name" \in DOMAIN ResolvedSpecs[n] /\ Supplied(ResolvedSpecs[n].name)
    THEN check_present(doc, ResolvedSpecs[n], Get(Combined.val, ResolvedSpecs[n].name))
    ELSE Ok(PyNone)

PresentViolates(n) == PresentOutcome(n).exc = "ValueError"

SomePresentViolates == \E n \in 1..Len(ResolvedSpecs) : PresentViolates(n)

ViolationHeads ==
    {"Invalid type for parameter", "Invalid value for parameter",
     "Invalid format for parameter"}

\* C12 as stated: the error reported is that of the lowest-numbered violated
\* rule, (1) missing path parameter, (2) unexpected parameter(s), (3) a type,
\* enum or pattern violation of any present declared parameter, (4) missing
\* required parameter, whatever the declaration order of the parameters
C12_LowestRuleReported ==
    (ReachesValidateParams /\ SpecsResolve) =>
        IF Len(MissingPlaceholders) > 0
        THEN IsError(verdict, 400, "Missing path parameter")
        ELSE IF Len(Undeclared) > 0
        THEN IsError(verdict, 400, "Unexpected parameter(s)")
        ELSE IF SomePresentViolates
        THEN \E head \in ViolationHeads : IsError(verdict, 400, head)
        ELSE SomeOmitted => IsError(verdict, 400, "Missing required parameter")

\* what the n-th declared parameter gives on its own: rule 3 when it is
\* present, rule 4 when it is absent
ParameterOutcome(n) ==
    IF OmittedRequired(n)
    THEN Raise("ValueError", <<"Missing required parameter", ResolvedSpecs[n].name>>)
    ELSE PresentOutcome(n)

ParameterFails(n) == ParameterOutcome(n).exc # "none"

FirstFailing ==
    CHOOSE n \in 1..Len(ResolvedSpecs) :
        ParameterFails(n) /\ \A m \in 1..(n - 1) : ~ParameterFails(m)

ValidationHeads ==
    ViolationHeads \cup {"Missing path parameter", "Unexpected parameter(s)",
                         "Missing required parameter"}

\* C12 amended: rule 1, then rule 2, then the declared parameters one by one
\* in declaration order, each with rule 3 when it is present and rule 4 when
\* it is absent: the error reported is that of the first declared parameter
\* that fails, so a missing required parameter declared before a present
\* parameter with a type, enum or pattern violation is the one reported; a
\* parameter "$ref" whose resolution raises ends the call with 500 before any
\* rule
C12_RulesPerParameterInOrder ==
    ReachesValidateParams =>
        IF ~SpecsResolve THEN InternalError(verdict)
        ELSE IF Len(MissingPlaceholders) > 0
        THEN verdict = [status_code |-> 400,
                        data |-> ErrorData(PyStr(<<"Missing path parameter",
                                                   MissingPlaceholders[1]>>))]
        ELSE IF Len(Undeclared) > 0
        THEN verdict = [status_code |-> 400,
                        data |-> ErrorData(PyStr(<<"Unexpected parameter(s)">>
                                                 \o Undeclared))]
        ELSE IF \E n \in 1..Len(ResolvedSpecs) : ParameterFails(n)
        THEN verdict = handle_exception(ParameterOutcome(FirstFailing))
        ELSE \A head \in ValidationHeads : ~IsError(verdict, 400, head)

\* C12 witness: a required parameter is omitted, a parameter declared after it
\* is present with a violation, and the omitted one is reported
C12_Witness ==
    /\ ReachesValidateParams /\ SpecsResolve
    /\ Len(MissingPlaceholders) = 0 /\ Len(Undeclared) = 0
    /\ \E n \in 1..Len(ResolvedSpecs) :
          /\ OmittedRequired(n)
          /\ \A m \in 1..(n - 1) : ~ParameterFails(m)
          /\ \E k \in (n + 1)..Len(ResolvedSpecs) : PresentViolates(k)
    /\ IsError(verdict, 400, "Missing required parameter")

-----------------------------------------------------------------------------
(* _resolve_ref alone, called on a mapping, lines 173-183 *)

RefTo(segs) == [ref |-> <<"#">> \o segs]

\* mappings with and without "$ref": to schemas and parameters of the
\* components, to keys that do not exist, to the document itself, to and
\* through the list under "servers" and the text under "basePath"
RefMappings ==
    {Ref("Account"), Ref("Counter"), Ref("Node"), Ref("Status"), Ref("Missing"),
     LimitRefParam, BasePathRefParam,
     RefTo(<<>>),
     RefTo(<<"/", "components">>),
     RefTo(<<"/", "components", "/", "parameters", "/", "Nope">>),
     RefTo(<<"/", "nothing", "/", "x">>),
     RefTo(<<"/", "servers">>),
     RefTo(<<"/", "servers", "/", "0">>),
     RefTo(<<"/", "basePath">>),
     [ref |-> <<"#", "/", "components", "/", "schemas", "/", "Counter">>,
      description |-> "a counter"],
     StringSchema, CounterSchema, IdParam, EmptySchema}

InitRef ==
    /\ doc \in Docs
    /\ ref_schema \in RefMappings
    /\ resolved_schema = NotResolved
    /\ req = [url |-> UrlAccount, method |-> <<"GET">>, endpoint |-> PathReports,
              params |-> PyNone]
    /\ pc = "resolve"
    /\ code = <<>>
    /\ stack = <<>>
    /\ maxFrames = 0
    /\ lastRet = NoReturn
    /\ mock = PyNone
    /\ audit = "none"
    /\ verdict = NoVerdict
    /\ first = NoVerdict
    /\ run = 1

\* the call self._resolve_ref(ref_schema)
ResolveRef ==
    /\ pc = "resolve"
    /\ resolved_schema' = resolve_ref(doc, ref_schema)
    /\ pc' = "done"
    /\ UNCHANGED <<doc, req, ref_schema, code, stack, maxFrames, lastRet, mock, audit,
                   verdict, first, run>>

SpecRef == InitRef /\ [][ResolveRef]_vars

\* the segments #/a/b/c of the mapping given to _resolve_ref
RefSegments == Tail(split(ref_schema.ref, "/"))

\* walking `at` through the keys `segs`: the fragment reached, or that a
\* segment cannot be followed (a key that is missing, a value with no keys)
RECURSIVE Follow(_, _, _)
Follow(at, keyed, segs) ==
    IF Len(segs) = 0 THEN [found |-> TRUE, fragment |-> at]
    ELSE IF ~keyed \/ SegKey(segs[1]) \notin DOMAIN at THEN [found |-> FALSE]
    ELSE Follow(at[SegKey(segs[1])], holds_mapping(SegKey(segs[1])), Tail(segs))

ResolveReturned == pc = "done" /\ resolved_schema # NotResolved

\* C13: _resolve_ref never raises: for a mapping with "$ref" it returns the
\* fragment reached by walking the document through the segments when every
\* segment exists, and the original mapping whenever a segment cannot be
\* followed; a mapping without "$ref" is returned unchanged.
C13_ResolveRefNeverRaises ==
    ResolveReturned =>
        /\ resolved_schema.exc = "none"
        /\ resolved_schema.val =
              IF "ref" \notin DOMAIN ref_schema THEN ref_schema
              ELSE IF Follow(doc, TRUE, RefSegments).found
              THEN Follow(doc, TRUE, RefSegments).fragment
              ELSE ref_schema

====
